---------------------------- MODULE Spec2Model ----------------------------
(***************************************************************************)
(* Model of the FTP estimation pipeline of jgrissel/fitness:               *)
(*   src/activity_parser.py  parse_activity_details,                       *)
(*                           calculate_normalized_power,                   *)
(*                           calculate_decoupling                          *)
(*   src/ftp_estimator.py    FTPEstimator                                  *)
(*   src/db_manager.py       get_recent_activity_ids,                      *)
(*                           get_activity_details_json                     *)
(*                                                                         *)
(* Time base.  The source counts samples (one per second).  One sample of  *)
(* the model (a "tick") stands for NPWindow = 30 consecutive samples, the  *)
(* width of the normalized-power window, and every sample count of the     *)
(* source (window widths, the 3600-sample threshold) is divided by it.     *)
(* Durations keep their value in seconds (180 .. 3600); Ticks(d) is the    *)
(* count of model samples they span.                                       *)
(*                                                                         *)
(* Numbers.  Floats are modelled as exact rationals <<num, den>> in lowest *)
(* terms, den > 0.  The one irrational step, the fourth root of            *)
(* calculate_normalized_power, is rounded down to 1/RootPrec; it is exact  *)
(* whenever the root is a multiple of 1/RootPrec (any constant series).    *)
(* A missing sample (None / NaN of pandas) is the value NaN.               *)
(***************************************************************************)
EXTENDS Integers, Sequences, FiniteSets, TLC

(***************************************************************************)
(* Rational arithmetic                                                     *)
(***************************************************************************)
Abs(n) == IF n < 0 THEN -n ELSE n

RECURSIVE GCD(_, _)
GCD(a, b) == IF b = 0 THEN a ELSE GCD(b, a % b)

Rat(n, d) ==
    LET g == GCD(Abs(n), Abs(d))
        s == IF d < 0 THEN -1 ELSE 1
    IN  <<(s * n) \div g, (s * d) \div g>>

Zero == <<0, 1>>
RInt(n) == <<n, 1>>
RMul(a, b) ==
    LET x == Rat(a[1], b[2])
        y == Rat(b[1], a[2])
    IN  <<x[1] * y[1], x[2] * y[2]>>
RDiv(a, b) == RMul(a, Rat(b[2], b[1]))
RAdd(a, b) ==
    LET g == GCD(a[2], b[2])
    IN  Rat(a[1] * (b[2] \div g) + b[1] * (a[2] \div g), (a[2] \div g) * b[2])
RNeg(a) == <<-a[1], a[2]>>
RSub(a, b) == RAdd(a, RNeg(b))
RLess(a, b) ==
    LET g == GCD(a[2], b[2])
    IN  a[1] * (b[2] \div g) < b[1] * (a[2] \div g)
RLeq(a, b) == ~RLess(b, a)
RPos(a) == a[1] > 0

(***************************************************************************)
(* Naturals beyond the machine word, as little-endian sequences of limbs   *)
(* base 10000, used to compare fourth powers exactly.                      *)
(***************************************************************************)
RECURSIVE BigOf(_)
BigOf(n) == IF n = 0 THEN <<>> ELSE <<n % 10000>> \o BigOf(n \div 10000)

RECURSIVE BigMulCarry(_, _, _)
BigMulCarry(a, m, c) ==
    IF a = <<>> THEN BigOf(c)
    ELSE LET t == Head(a) * m + c
         IN  <<t % 10000>> \o BigMulCarry(Tail(a), m, t \div 10000)

BigMul(a, m) == IF m = 0 THEN <<>> ELSE BigMulCarry(a, m, 0)
BigPow4(a, m) == BigMul(BigMul(BigMul(BigMul(a, m), m), m), m)

RECURSIVE BigLeqFrom(_, _, _)
BigLeqFrom(a, b, ix) ==
    IF ix = 0 THEN TRUE
    ELSE IF a[ix] # b[ix] THEN a[ix] < b[ix]
    ELSE BigLeqFrom(a, b, ix - 1)

BigLeq(a, b) ==
    IF Len(a) # Len(b) THEN Len(a) < Len(b) ELSE BigLeqFrom(a, b, Len(a))

\* x^4 * k <= q * p^4
Pow4Fits(x, k, q, p) == BigLeq(BigPow4(BigOf(k), x), BigPow4(BigOf(q), p))

\* the largest x in lo .. hi with x^4 * k <= q * p^4  (lo fits)
RECURSIVE Root4Search(_, _, _, _, _)
Root4Search(lo, hi, k, q, p) ==
    IF lo = hi THEN lo
    ELSE LET mid == (lo + hi + 1) \div 2
         IN  IF Pow4Fits(mid, k, q, p)
             THEN Root4Search(mid, hi, k, q, p)
             ELSE Root4Search(lo, mid - 1, k, q, p)

(***************************************************************************)
(* Sequences of samples                                                    *)
(***************************************************************************)
NaN == -1
RootPrec == 1000
NPWindow == 30
Ticks(samples) == samples \div NPWindow

\* the function f on lo .. hi as an explicit sequence <<f[lo], ..., f[hi]>>
RECURSIVE AsSeq(_, _, _)
AsSeq(f, lo, hi) ==
    IF lo > hi THEN <<>>
    ELSE IF lo = hi THEN <<f[lo]>>
    ELSE LET mid == (lo + hi) \div 2
         IN  AsSeq(f, lo, mid) \o AsSeq(f, mid + 1, hi)

SetMax(S) == CHOOSE x \in S : \A y \in S : y <= x
SetMin(S) == CHOOSE x \in S : \A y \in S : x <= y

\* a + b of floats: NaN as soon as one term is NaN
AddNaN(a, b) == IF a = NaN \/ b = NaN THEN NaN ELSE a + b

\* sum of s[lo .. hi]
RECURSIVE RangeSum(_, _, _)
RangeSum(s, lo, hi) ==
    IF lo > hi THEN 0
    ELSE IF lo = hi THEN s[lo]
    ELSE AddNaN(RangeSum(s, lo, (lo + hi) \div 2),
                RangeSum(s, (lo + hi) \div 2 + 1, hi))

\* Series.rolling(window).mean(), kept as window sums (mean = sum / window):
\* NaN until the window is full and wherever the window holds a NaN
RollingSum(s, window) ==
    AsSeq([e \in 1..Len(s) |->
              IF e < window THEN NaN ELSE RangeSum(s, e - window + 1, e)],
          1, Len(s))

Defined(s) == {ix \in 1..Len(s) : s[ix] # NaN}
\* Series.max() and Series.idxmax() over the defined values (there is one)
SeriesMax(s) == SetMax({s[ix] : ix \in Defined(s)})
FirstIndexOf(s, v) == SetMin({ix \in 1..Len(s) : s[ix] = v})
SeriesIdxMax(s) == FirstIndexOf(s, SeriesMax(s))
FillNa0(s) == AsSeq([ix \in 1..Len(s) |-> IF s[ix] = NaN THEN 0 ELSE s[ix]], 1, Len(s))
Slice(s, lo, hi) == AsSeq(s, lo, hi)

(***************************************************************************)
(* Raw detail payloads (the JSON stored in activity_details.details)       *)
(***************************************************************************)
NoIndex == -1
Desc(ix, k) == [metricsIndex |-> ix, key |-> k]
Entry(m) == [metrics |-> m, shape |-> "list"]
EntryNoMetrics == [metrics |-> <<>>, shape |-> "absent"]
EntryNullMetrics == [metrics |-> <<>>, shape |-> "null"]
Run(e, n) == [entry |-> e, count |-> n]

RECURSIVE RunTotal(_)
RunTotal(runs) ==
    IF runs = <<>> THEN 0 ELSE Head(runs).count + RunTotal(Tail(runs))
RECURSIVE RunAt(_, _)
RunAt(runs, ix) ==
    IF ix <= Head(runs).count THEN Head(runs).entry
    ELSE RunAt(Tail(runs), ix - Head(runs).count)
Expand(runs) ==
    AsSeq([ix \in 1..RunTotal(runs) |-> RunAt(runs, ix)], 1, RunTotal(runs))

\* json: "null" (no value), "dict", "str" (a non-mapping value);
\* a key of the dict is present when the has... flag is set
Payload(descs, runs) ==
    [json |-> "dict", hasDescriptors |-> TRUE, hasMetrics |-> TRUE,
     metricDescriptors |-> descs, activityDetailMetrics |-> Expand(runs)]
JsonNull ==
    [json |-> "null", hasDescriptors |-> FALSE, hasMetrics |-> FALSE,
     metricDescriptors |-> <<>>, activityDetailMetrics |-> <<>>]
JsonEmptyDict == [JsonNull EXCEPT !.json = "dict"]
JsonText == [JsonNull EXCEPT !.json = "str"]

\* Python truth value of a payload: None, {} and "" are false
Truthy(value) ==
    \/ value.json = "str"
    \/ value.json = "dict" /\ (value.hasDescriptors \/ value.hasMetrics)

(***************************************************************************)
(* DataFrame: a row count and named columns; two columns may carry the     *)
(* same name after the rename                                              *)
(***************************************************************************)
Frame(n, cols) == [raised |-> FALSE, nrows |-> n, cols |-> cols]
EmptyFrame == Frame(0, <<>>)
Raised == [raised |-> TRUE, nrows |-> 0, cols |-> <<>>]
IsEmpty(df) == df.nrows = 0 \/ df.cols = <<>>
Columns(df) == {df.cols[c].name : c \in 1..Len(df.cols)}
HasColumn(df, name) == name \in Columns(df)
Column(df, name) ==
    df.cols[SetMin({c \in 1..Len(df.cols) : df.cols[c].name = name})].vals
FrameSlice(df, lo, hi) ==
    Frame(hi - lo + 1,
          AsSeq([c \in 1..Len(df.cols) |->
                    [name |-> df.cols[c].name,
                     vals |-> Slice(df.cols[c].vals, lo, hi)]],
                1, Len(df.cols)))

(***************************************************************************)
(* src/activity_parser.py: parse_activity_details                          *)
(***************************************************************************)
column_map(key) ==
    CASE key = "directHeartRate" -> "heart_rate"
      [] key = "directSpeed" -> "speed"
      [] key = "directElevation" -> "elevation"
      [] key = "directLatitude" -> "latitude"
      [] key = "directLongitude" -> "longitude"
      [] key = "sumDistance" -> "distance"
      [] key = "directPower" -> "power"
      [] key \in {"directCadence", "directRunCadence", "directBikeCadence",
                  "directRunningCadence", "directCyclingCadence",
                  "directSwimCadence"} -> "cadence"
      [] OTHER -> key

\* index_to_key[i]: the key of the last descriptor in list order that declares
\* metricsIndex i with a non-empty key; "" when i is not in the dict
index_to_key(descriptors, ix) ==
    LET hits == {d \in 1..Len(descriptors) :
                    /\ descriptors[d].metricsIndex # NoIndex
                    /\ descriptors[d].key # ""
                    /\ descriptors[d].metricsIndex = ix}
    IN  IF hits = {} THEN "" ELSE descriptors[SetMax(hits)].key

\* the row dict of one sample: key -> value of the last position carrying it
RowHas(descriptors, values, key) ==
    \E ix \in 0..(Len(values) - 1) : index_to_key(descriptors, ix) = key
RowValue(descriptors, values, key) ==
    IF ~RowHas(descriptors, values, key) THEN NaN
    ELSE values[SetMax({ix \in 0..(Len(values) - 1) :
                           index_to_key(descriptors, ix) = key}) + 1]

\* pd.DataFrame(data_rows): one column per key, in order of first appearance
RECURSIVE KeysInOrder(_, _, _)
KeysInOrder(descriptors, ix, width) ==
    IF ix >= width THEN <<>>
    ELSE LET k == index_to_key(descriptors, ix)
             rest == KeysInOrder(descriptors, ix + 1, width)
         IN  IF k = "" THEN rest
             ELSE <<k>> \o SelectSeq(rest, LAMBDA x : x # k)

FrameOfKeys(descriptors, entries, keys) ==
    AsSeq([c \in 1..Len(keys) |->
              [name |-> keys[c],
               vals |-> AsSeq([t \in 1..Len(entries) |->
                                  RowValue(descriptors, entries[t].metrics, keys[c])],
                              1, Len(entries))]],
          1, Len(keys))

\* lines 57-62: df['timestamp'] = pd.to_datetime(df['directTimestamp'])
WithTimestamp(cols) ==
    IF \E c \in 1..Len(cols) : cols[c].name = "directTimestamp"
    THEN Append(cols,
           [name |-> "timestamp",
            vals |-> cols[SetMin({c \in 1..Len(cols) :
                                     cols[c].name = "directTimestamp"})].vals])
    ELSE cols

\* line 86: df.rename(columns=column_map)
Renamed(cols) ==
    AsSeq([c \in 1..Len(cols) |->
              [name |-> column_map(cols[c].name), vals |-> cols[c].vals]],
          1, Len(cols))

MaxWidth(entries) ==
    IF Len(entries) = 0 THEN 0
    ELSE SetMax({Len(entries[t].metrics) : t \in 1..Len(entries)})

BuildFrame(descriptors, entries) ==
    Frame(Len(entries),
          Renamed(WithTimestamp(
              FrameOfKeys(descriptors, entries,
                          KeysInOrder(descriptors, 0, MaxWidth(entries))))))

\* the body of the try block: Raised where a statement of it raises
ParseBody(details_json) ==
    IF ~Truthy(details_json) THEN EmptyFrame
    ELSE IF details_json.json = "str" THEN Raised
    ELSE IF ~details_json.hasDescriptors \/ ~details_json.hasMetrics THEN EmptyFrame
    ELSE IF \E t \in 1..Len(details_json.activityDetailMetrics) :
                details_json.activityDetailMetrics[t].shape = "null"
         THEN Raised
    ELSE BuildFrame(details_json.metricDescriptors,
                    details_json.activityDetailMetrics)

\* the function without its try/except: what a raise in the body would do
\* to the caller
parse_activity_details_unguarded(details_json) == ParseBody(details_json)

parse_activity_details(details_json) ==
    LET df == ParseBody(details_json)
    IN  IF df.raised THEN EmptyFrame ELSE df

(***************************************************************************)
(* src/activity_parser.py: calculate_normalized_power, calculate_decoupling*)
(***************************************************************************)
Pow4(x) == x * x * x * x
Pow4Seq(s) ==
    AsSeq([ix \in 1..Len(s) |-> IF s[ix] = NaN THEN 0 ELSE Pow4(s[ix])], 1, Len(s))

\* lines 106-114 on the rolling window sums: the fourth root of the mean of
\* the defined (sum / window)^4, 0.0 when the mean is NaN or not positive
RootMeanPow4(rolling, count, total, window) ==
    IF count > 0 /\ total > 0
    THEN Rat(Root4Search(0, SeriesMax(rolling) * RootPrec,
                         count * Pow4(window), total, RootPrec),
             RootPrec)
    ELSE Zero

\* the mean of line 109 taken over every position, the warm-up ones included
NormalizedOfRollingAll(rolling, pow4, window) ==
    RootMeanPow4(rolling, Len(rolling), RangeSum(pow4, 1, Len(pow4)), window)

NormalizedOfRolling(rolling, pow4, window) ==
    RootMeanPow4(rolling, Cardinality(Defined(rolling)),
                 RangeSum(pow4, 1, Len(pow4)), window)

\* the rolling mean with partial windows (min_periods = 1): sums of the
\* samples seen so far, scaled to the full window
RollingSumPartial(s, window) ==
    AsSeq([e \in 1..Len(s) |->
              IF e < window THEN (RangeSum(s, 1, e) * window) \div e
              ELSE RangeSum(s, e - window + 1, e)],
          1, Len(s))
calculate_normalized_power_partial(power_series, window) ==
    IF Len(power_series) = 0 THEN Zero
    ELSE NormalizedOfRolling(RollingSumPartial(power_series, window),
                             Pow4Seq(RollingSumPartial(power_series, window)),
                             window)

\* window is in model samples; the default of the source is Ticks(NPWindow)
calculate_normalized_power(power_series, window) ==
    IF Len(power_series) = 0 THEN Zero
    ELSE NormalizedOfRolling(RollingSum(power_series, window),
                             Pow4Seq(RollingSum(power_series, window)), window)

\* Series.mean(): the mean of the defined values; NaN (defined = FALSE)
\* when there is none
MeanOf(s, count) ==
    IF count = 0 THEN [defined |-> FALSE, value |-> Zero]
    ELSE [defined |-> TRUE,
          value |-> Rat(RangeSum(FillNa0(s), 1, Len(s)), count)]
SeriesMean(s) == MeanOf(s, Cardinality(Defined(s)))

\* lines 137-139
EfOf(np_val, avg_hr) ==
    IF avg_hr.defined /\ RPos(avg_hr.value)
    THEN RDiv(np_val, avg_hr.value)
    ELSE Zero

\* window: the default window of calculate_normalized_power, in model samples
get_ef(segment, window) ==
    IF IsEmpty(segment) THEN Zero
    ELSE EfOf(calculate_normalized_power(Column(segment, "power"), window),
              SeriesMean(Column(segment, "heart_rate")))

\* lines 144-146
DecouplingOf(ef1, ef2) ==
    IF RPos(ef1)
    THEN RMul(RDiv(RSub(ef1, ef2), ef1), RInt(100))
    ELSE Zero

calculate_decoupling(df, window) ==
    IF IsEmpty(df) \/ ~HasColumn(df, "power") \/ ~HasColumn(df, "heart_rate")
    THEN Zero
    ELSE DecouplingOf(get_ef(FrameSlice(df, 1, df.nrows \div 2), window),
                      get_ef(FrameSlice(df, df.nrows \div 2 + 1, df.nrows), window))

(***************************************************************************)
(* src/ftp_estimator.py: FTPEstimator                                      *)
(***************************************************************************)
None == 0
mmp_durations == <<180, 300, 600, 1200, 1800, 2400, 3600>>
steady_durations == <<2400, 3600>>

\* the function with line 25 as len(series) <= duration_seconds
calculate_rolling_max_power_longer(df, duration_seconds) ==
    IF ~HasColumn(df, "power") \/ IsEmpty(df) THEN Zero
    ELSE IF Len(Column(df, "power")) <= Ticks(duration_seconds) THEN Zero
    ELSE Rat(SeriesMax(RollingSum(FillNa0(Column(df, "power")),
                                  Ticks(duration_seconds))),
             Ticks(duration_seconds))

\* the function with the rolling sum in place of the rolling mean
calculate_rolling_max_power_sum(df, duration_seconds) ==
    IF ~HasColumn(df, "power") \/ IsEmpty(df) THEN Zero
    ELSE IF Len(Column(df, "power")) < Ticks(duration_seconds) THEN Zero
    ELSE RInt(SeriesMax(RollingSum(FillNa0(Column(df, "power")),
                                   Ticks(duration_seconds))))

calculate_rolling_max_power(df, duration_seconds) ==
    IF ~HasColumn(df, "power") \/ IsEmpty(df) THEN Zero
    ELSE IF Len(Column(df, "power")) < Ticks(duration_seconds) THEN Zero
    ELSE Rat(SeriesMax(RollingSum(FillNa0(Column(df, "power")),
                                  Ticks(duration_seconds))),
             Ticks(duration_seconds))

RECURSIVE SetSum(_, _)
SetSum(S, f) ==
    IF S = {} THEN Zero
    ELSE LET x == CHOOSE y \in S : TRUE
         IN  RAdd(f[x], SetSum(S \ {x}, f))

\* line 62 without the test t >= 180
valid_points_any_duration(mmp_curve) ==
    {t \in DOMAIN mmp_curve : RPos(mmp_curve[t])}

valid_points(mmp_curve) ==
    {t \in DOMAIN mmp_curve : RPos(mmp_curve[t]) /\ t >= 180}

\* np.linalg.lstsq of Y = CP * X + W' over n >= 2 distinct X: the ordinary
\* least squares slope and intercept, from the sums over the points
Slope(n, Sx, Sy, Sxx, Sxy) ==
    RDiv(RSub(RMul(RInt(n), Sxy), RMul(Sx, Sy)),
         RSub(RMul(RInt(n), Sxx), RMul(Sx, Sx)))
Intercept(n, Sx, Sy, cp) == RDiv(RSub(Sy, RMul(cp, Sx)), RInt(n))
LeastSquares(n, Sx, Sy, cp) == [cp |-> cp, w_prime |-> Intercept(n, Sx, Sy, cp)]

\* the fit with line 69 left out: power, not work, regressed on duration
FitPointsOfPower(mmp_curve, pts) ==
    LeastSquares(Cardinality(pts),
                 SetSum(pts, [t \in pts |-> RInt(t)]),
                 SetSum(pts, [t \in pts |-> mmp_curve[t]]),
                 Slope(Cardinality(pts),
                       SetSum(pts, [t \in pts |-> RInt(t)]),
                       SetSum(pts, [t \in pts |-> mmp_curve[t]]),
                       SetSum(pts, [t \in pts |-> RInt(t * t)]),
                       SetSum(pts, [t \in pts |-> RMul(RInt(t), mmp_curve[t])])))

\* lines 67-75.  The sums are taken with the durations in minutes, which
\* keeps them in TLC's integers; the slope does not depend on the unit of
\* time and the intercept is converted back to seconds.
Minutes(t) == Rat(t, 60)
FitOfSums(n, Sx, Sy, cp) ==
    [cp |-> cp, w_prime |-> RMul(RInt(60), Intercept(n, Sx, Sy, cp))]
FitPoints(mmp_curve, pts) ==
    FitOfSums(Cardinality(pts),
              SetSum(pts, [t \in pts |-> Minutes(t)]),
              SetSum(pts, [t \in pts |-> RMul(mmp_curve[t], Minutes(t))]),
              Slope(Cardinality(pts),
                    SetSum(pts, [t \in pts |-> Minutes(t)]),
                    SetSum(pts, [t \in pts |-> RMul(mmp_curve[t], Minutes(t))]),
                    SetSum(pts, [t \in pts |-> RMul(Minutes(t), Minutes(t))]),
                    SetSum(pts, [t \in pts |->
                                    RMul(Minutes(t),
                                         RMul(mmp_curve[t], Minutes(t)))])))

fit_cp_model(mmp_curve) ==
    IF Cardinality(valid_points(mmp_curve)) < 2
    THEN [error |-> "Not enough valid data points (>= 3 mins)"]
    ELSE FitPoints(mmp_curve, valid_points(mmp_curve))

NoSteady == [power |-> Zero, duration |-> 0, activity_id |-> None, vi |-> Zero]

\* lines 116-117 for the window ending at idx_end
WindowVi(power, window, idx_end, max_avg_p) ==
    IF RPos(max_avg_p)
    THEN RDiv(calculate_normalized_power(
                  Slice(power, idx_end - window + 1, idx_end), Ticks(NPWindow)),
              max_avg_p)
    ELSE RInt(999)

\* lines 106-117 on the rolling window sums
BestWindow(power, rolling_p, window) ==
    [skip |-> FALSE, raised |-> FALSE,
     power |-> Rat(SeriesMax(rolling_p), window),
     vi |-> WindowVi(power, window, SeriesIdxMax(rolling_p),
                     Rat(SeriesMax(rolling_p), window))]

SkippedWindow == [skip |-> TRUE, raised |-> FALSE, power |-> Zero, vi |-> Zero]
RaisedWindow == [skip |-> TRUE, raised |-> TRUE, power |-> Zero, vi |-> Zero]

\* lines 99-117 for one frame and one window length: the window of maximum
\* rolling mean power, its average and its variability index.  skip: the
\* continue of line 99 or 109; raised: df['power'] without a power column
WindowOrSkip(power, rolling_p, window) ==
    IF Defined(rolling_p) = {} THEN SkippedWindow
    ELSE BestWindow(power, rolling_p, window)

SteadyWindow(df, duration) ==
    IF df.nrows < Ticks(duration) THEN SkippedWindow
    ELSE IF ~HasColumn(df, "power") THEN RaisedWindow
    ELSE WindowOrSkip(Column(df, "power"),
                      RollingSum(Column(df, "power"), Ticks(duration)),
                      Ticks(duration))

\* the retained effort with line 120 as max_avg_p >= best_steady['power']
RetainSteadyOrEqual(best, cand, duration, activity_id) ==
    IF ~cand.skip /\ RLeq(cand.vi, Rat(105, 100))
                  /\ RLeq(best.power, cand.power)
    THEN [power |-> cand.power, duration |-> duration,
          activity_id |-> activity_id, vi |-> cand.vi]
    ELSE best

\* the retained effort without the test of line 119
RetainSteadyAnyVi(best, cand, duration, activity_id) ==
    IF ~cand.skip /\ RLess(best.power, cand.power)
    THEN [power |-> cand.power, duration |-> duration,
          activity_id |-> activity_id, vi |-> cand.vi]
    ELSE best

\* the retained effort without the comparison of line 120
RetainSteadyLast(best, cand, duration, activity_id) ==
    IF ~cand.skip /\ RLeq(cand.vi, Rat(105, 100))
    THEN [power |-> cand.power, duration |-> duration,
          activity_id |-> activity_id, vi |-> cand.vi]
    ELSE best

\* lines 119-126: the retained effort after one candidate window
RetainSteady(best, cand, duration, activity_id) ==
    IF ~cand.skip /\ RLeq(cand.vi, Rat(105, 100))
                  /\ RLess(best.power, cand.power)
    THEN [power |-> cand.power, duration |-> duration,
          activity_id |-> activity_id, vi |-> cand.vi]
    ELSE best

\* the filter of line 146 with the bounds included
KeepDecouplingInclusive(kept, d) ==
    IF RLeq(RInt(-20), d) /\ RLeq(d, RInt(30))
    THEN Append(kept, d)
    ELSE kept

\* lines 146-147
KeepDecoupling(kept, d) ==
    IF RLess(RInt(-20), d) /\ RLess(d, RInt(30))
    THEN Append(kept, d)
    ELSE kept

RECURSIVE SeqSum(_)
SeqSum(s) == IF s = <<>> THEN Zero ELSE RAdd(Head(s), SeqSum(Tail(s)))

\* lines 149-150
MeanDecoupling(kept) ==
    IF kept = <<>> THEN Zero
    ELSE RDiv(SeqSum(kept), RInt(Len(kept)))

\* the clamp at the unused upper_bound of line 179 (1.15 x steady)
ClampModeledLoose(cp_ftp, best_steady_p) ==
    IF RPos(best_steady_p) /\ RLess(RMul(best_steady_p, Rat(115, 100)), cp_ftp)
    THEN RMul(best_steady_p, Rat(115, 100))
    ELSE cp_ftp

\* lines 174-186
ClampModeled(cp_ftp, best_steady_p) ==
    IF RPos(best_steady_p) /\ RLess(RMul(best_steady_p, Rat(110, 100)), cp_ftp)
    THEN RMul(best_steady_p, Rat(110, 100))
    ELSE cp_ftp

\* no blend: the modeled FTP is reported as it is
FinalFtpModelOnly(modeled, best_steady_p, avg_decoupling) == modeled

\* the blend with the even weights already at a decoupling of 7.0
FinalFtpInclusive(modeled, best_steady_p, avg_decoupling) ==
    IF RPos(best_steady_p)
    THEN IF RLeq(RInt(7), avg_decoupling)
         THEN RAdd(RMul(Rat(5, 10), modeled), RMul(Rat(5, 10), best_steady_p))
         ELSE RAdd(RMul(Rat(7, 10), modeled), RMul(Rat(3, 10), best_steady_p))
    ELSE modeled

\* lines 202-211
FinalFtp(modeled, best_steady_p, avg_decoupling) ==
    IF RPos(best_steady_p)
    THEN IF RLess(RInt(7), avg_decoupling)
         THEN RAdd(RMul(Rat(5, 10), modeled), RMul(Rat(5, 10), best_steady_p))
         ELSE RAdd(RMul(Rat(7, 10), modeled), RMul(Rat(3, 10), best_steady_p))
    ELSE modeled

\* a graded score: 1 at no decoupling, falling by 0.1 per percent
ConfidenceLinear(avg_decoupling) ==
    RSub(RInt(1), RDiv(avg_decoupling, RInt(10)))

\* the score with 0.8 still given at a decoupling of 5.0
ConfidenceInclusive(avg_decoupling) ==
    IF RLeq(avg_decoupling, RInt(5)) THEN Rat(8, 10) ELSE Rat(5, 10)

\* line 215
Confidence(avg_decoupling) ==
    IF RLess(avg_decoupling, RInt(5)) THEN Rat(8, 10) ELSE Rat(5, 10)

(***************************************************************************)
(* The stored corpus.  Blobs lists the detail payloads the model draws     *)
(* from, Stored the activities that carry them.  Sample rows are           *)
(* <<directPower, directHeartRate>>; run lengths are in ticks (6 ticks =   *)
(* 180 s, 80 ticks = 2400 s, 120 ticks = 3600 s).                          *)
(***************************************************************************)
PowerHr == <<Desc(0, "directPower"), Desc(1, "directHeartRate")>>
HrOnly == <<Desc(0, "directHeartRate")>>
PH(p, hr, n) == Run(Entry(<<p, hr>>), n)

\* 4000 samples rising linearly from 100 W to 300 W at heart rate 150: in
\* ticks of 30 samples and units of 5 W, 133 ticks in 41 even steps 20..60
RampSteps == 41
RampTicks == Ticks(4000)
RampRuns ==
    AsSeq([k \in 1..RampSteps |->
              PH(19 + k, 150,
                 (RampTicks * k) \div RampSteps
                    - (RampTicks * (k - 1)) \div RampSteps)],
          1, RampSteps)

Blobs ==
    << JsonNull,                                               \* 1 no details
       JsonEmptyDict,                                          \* 2 {}
       JsonText,                                               \* 3 not a mapping
       Payload(HrOnly, <<Run(Entry(<<150>>), 120)>>),          \* 4 no power column
       Payload(PowerHr, <<PH(2, 70, 60), PH(NaN, 100, 1),
                          PH(2, 100, 60)>>),                   \* 5 null power, drift 30 %
       Payload(PowerHr, <<PH(3, 150, 5)>>),                    \* 6 under every window
       Payload(PowerHr, <<PH(3, 150, 4), PH(0, 150, 2),
                          PH(3, 150, 4)>>),                    \* 7 two bursts, 300 s
       Payload(PowerHr, <<PH(3, 150, 20)>>),                   \* 8 600 s at 3 W
       Payload(PowerHr, <<PH(2, 150, 80)>>),                   \* 9 2400 s steady
       Payload(PowerHr, <<PH(2, 93, 60), PH(2, 100, 60)>>),    \* 10 drift 7 %
       Payload(PowerHr, <<PH(3, 150, 60), PH(1, 150, 60)>>),   \* 11 fading, VI > 1.05
       Payload(PowerHr, <<PH(2, 150, 60), PH(2, 165, 60)>>),   \* 12 drift 9.09 %
       Payload(PowerHr, <<PH(1, 120, 60), PH(1, 100, 60)>>),   \* 13 steady, drift -20 %
       Payload(PowerHr, <<PH(2, 150, 105), PH(3, 150, 15)>>),  \* 14 late surge
       Payload(PowerHr, <<Run(EntryNullMetrics, 6)>>),         \* 15 metrics: null
       Payload(PowerHr, <<PH(2, 95, 60), PH(2, 100, 60)>>),    \* 16 drift 5 %
       Payload(PowerHr, <<PH(3, 150, 6)>>),                    \* 17 180 s only
       Payload(PowerHr, <<PH(1, 150, 10)>>),                   \* 18 300 s at 1 W
       Payload(PowerHr, RampRuns) >>                           \* 19 ramp 100 -> 300 W

Stored ==
    AsSeq([k \in 1..Len(Blobs) |->
              [activity_type |-> "cycling", age_days |-> 10, details |-> k]],
          1, Len(Blobs))
    \o << [activity_type |-> "running", age_days |-> 10, details |-> 11],
          [activity_type |-> "cycling", age_days |-> 90, details |-> 8] >>

NumActivities == 2
LookbackDays == 60

\* the power samples of a payload as the scans see them (null counted as 0),
\* none when the payload has no power column
PowerSamples(df) ==
    IF IsEmpty(df) \/ ~HasColumn(df, "power") THEN <<>>
    ELSE FillNa0(Column(df, "power"))
\* the largest mean of width consecutive samples, by enumeration of the windows
RMaxOf(S) == CHOOSE x \in S : \A y \in S : RLeq(y, x)
LargestMean(samples, width) ==
    RMaxOf({Rat(RangeSum(samples, s, s + width - 1), width) :
               s \in 1..(Len(samples) - width + 1)})

\* the windows of width samples that hold no null, by their first position
FullWindows(power, width) ==
    {s \in 1..(Len(power) - width + 1) :
        \A e \in s..(s + width - 1) : power[e] # NaN}
WindowMean(power, s, width) == Rat(RangeSum(power, s, s + width - 1), width)
\* the first window of largest mean among starts, its mean and its NP / mean
FirstLargest(power, starts, width, top) ==
    [power |-> top,
     vi |-> IF RPos(top)
            THEN RDiv(calculate_normalized_power(
                          Slice(power,
                                SetMin({s \in starts :
                                           WindowMean(power, s, width) = top}),
                                SetMin({s \in starts :
                                           WindowMean(power, s, width) = top})
                                   + width - 1),
                          Ticks(NPWindow)),
                      top)
            ELSE RInt(999)]
LargestWindow(power, starts, width) ==
    FirstLargest(power, starts, width,
                 RMaxOf({WindowMean(power, s, width) : s \in starts}))

\* the analysis of each payload, computed once
ParsedFrame ==
    AsSeq([k \in 1..Len(Blobs) |-> parse_activity_details(Blobs[k])],
          1, Len(Blobs))
RollingMaxPower ==
    AsSeq([k \in 1..Len(Blobs) |->
              AsSeq([jx \in 1..Len(mmp_durations) |->
                        calculate_rolling_max_power(ParsedFrame[k],
                                                    mmp_durations[jx])],
                    1, Len(mmp_durations))],
          1, Len(Blobs))
SteadyWindows ==
    AsSeq([k \in 1..Len(Blobs) |->
              AsSeq([jx \in 1..Len(steady_durations) |->
                        SteadyWindow(ParsedFrame[k], steady_durations[jx])],
                    1, Len(steady_durations))],
          1, Len(Blobs))
Decoupling ==
    AsSeq([k \in 1..Len(Blobs) |-> calculate_decoupling(ParsedFrame[k], Ticks(NPWindow))],
          1, Len(Blobs))
\* per payload and steady duration: whether a window without null exists,
\* and the window of largest mean by enumeration
SteadyReference ==
    AsSeq([k \in 1..Len(Blobs) |->
              AsSeq([jx \in 1..Len(steady_durations) |->
                        IF ~HasColumn(ParsedFrame[k], "power")
                           \/ FullWindows(Column(ParsedFrame[k], "power"),
                                          Ticks(steady_durations[jx])) = {}
                        THEN [none |-> TRUE]
                        ELSE [none |-> FALSE,
                              best |-> LargestWindow(
                                  Column(ParsedFrame[k], "power"),
                                  FullWindows(Column(ParsedFrame[k], "power"),
                                              Ticks(steady_durations[jx])),
                                  Ticks(steady_durations[jx]))]],
                    1, Len(steady_durations))],
          1, Len(Blobs))
Samples ==
    AsSeq([k \in 1..Len(Blobs) |-> PowerSamples(ParsedFrame[k])], 1, Len(Blobs))
WindowBest ==
    AsSeq([k \in 1..Len(Blobs) |->
              AsSeq([jx \in 1..Len(mmp_durations) |->
                        IF Len(Samples[k]) < Ticks(mmp_durations[jx]) THEN Zero
                        ELSE LargestMean(Samples[k], Ticks(mmp_durations[jx]))],
                    1, Len(mmp_durations))],
          1, Len(Blobs))

(***************************************************************************)
(* State: the two tables of the database, the arguments of the call, and   *)
(* the locals of estimate_ftp_advanced and of the method it is in          *)
(***************************************************************************)
VARIABLES
    activities,              \* rows of table activities, newest first
    activity_details,        \* activity_id -> index of its payload in Blobs
    days, activity_types,    \* arguments of estimate_ftp_advanced
    pc,                      \* position in the call
    activity_ids, i, j,      \* the scanned ids, the loop indices
    details,                 \* payload fetched for activity_ids[i]
    best_powers, contributing_activities,
    cp_result, best_steady, ftp_modeled, decouplings, decoupling,
    result                   \* the returned dict

db == <<activities, activity_details>>
args == <<days, activity_types>>
curve == <<best_powers, contributing_activities>>
vars == <<activities, activity_details, days, activity_types, pc, activity_ids,
          i, j, details, best_powers, contributing_activities, cp_result,
          best_steady, ftp_modeled, decouplings, decoupling, result>>

Pending == [pending |-> TRUE]

(***************************************************************************)
(* src/db_manager.py                                                       *)
(***************************************************************************)
InList(x, list) == \E n \in 1..Len(list) : list[n] = x

\* SELECT activity_id ... WHERE start_time >= NOW() - days [AND activity_type
\* IN (...)] ORDER BY start_time DESC; the rows are kept newest first
get_recent_activity_ids(lookback, types) ==
    LET hit(row) == /\ row.age_days <= lookback
                    /\ (types # <<>> => InList(row.activity_type, types))
        rows == SelectSeq(activities, hit)
    IN  [n \in 1..Len(rows) |-> rows[n].activity_id]

get_activity_details_json(activity_id) == activity_details[activity_id]

(***************************************************************************)
(* Init: a corpus of up to NumActivities stored activities, newest first   *)
(***************************************************************************)
Corpora ==
    UNION {[1..n -> 1..Len(Stored)] : n \in 0..NumActivities}
NewestFirst(c) ==
    \A a, b \in DOMAIN c : a < b => Stored[c[a]].age_days <= Stored[c[b]].age_days

Init ==
    /\ \E c \in Corpora :
          /\ NewestFirst(c)
          /\ activities =
                [n \in DOMAIN c |->
                    [activity_id |-> n,
                     activity_type |-> Stored[c[n]].activity_type,
                     age_days |-> Stored[c[n]].age_days]]
          /\ activity_details = [n \in DOMAIN c |-> Stored[c[n]].details]
    /\ days = LookbackDays
    /\ activity_types \in {<<>>, <<"cycling">>}
    /\ pc = "call"
    /\ activity_ids = <<>>
    /\ i = 0
    /\ j = 0
    /\ details = None
    /\ best_powers = Pending
    /\ contributing_activities = Pending
    /\ cp_result = Pending
    /\ best_steady = Pending
    /\ ftp_modeled = Zero
    /\ decouplings = <<>>
    /\ decoupling = Zero
    /\ result = Pending

(***************************************************************************)
(* get_season_best_curve (step 1)                                          *)
(***************************************************************************)
\* lines 35-40 with a scan position that outlives the call
CurveCallResuming ==
    /\ pc = "call"
    /\ activity_ids' = get_recent_activity_ids(days, activity_types)
    /\ best_powers' = [d \in {mmp_durations[n] : n \in 1..Len(mmp_durations)} |-> Zero]
    /\ contributing_activities' =
          [d \in {mmp_durations[n] : n \in 1..Len(mmp_durations)} |-> None]
    /\ i' = IF i = 0 THEN 1 ELSE i
    /\ pc' = "curve"
    /\ UNCHANGED <<db, args, j, details, cp_result, best_steady, ftp_modeled,
                   decouplings, decoupling, result>>

\* lines 35-40
CurveCall ==
    /\ pc = "call"
    /\ activity_ids' = get_recent_activity_ids(days, activity_types)
    /\ best_powers' = [d \in {mmp_durations[n] : n \in 1..Len(mmp_durations)} |-> Zero]
    /\ contributing_activities' =
          [d \in {mmp_durations[n] : n \in 1..Len(mmp_durations)} |-> None]
    /\ i' = 1
    /\ pc' = "curve"
    /\ UNCHANGED <<db, args, j, details, cp_result, best_steady, ftp_modeled,
                   decouplings, decoupling, result>>

\* lines 44 and 46: the two continue statements
CurveSkip(blob) ==
    \/ ~Truthy(Blobs[blob])
    \/ IsEmpty(ParsedFrame[blob])
    \/ ~HasColumn(ParsedFrame[blob], "power")

\* lines 42-46: fetch and parse the next activity
CurveFetch ==
    /\ pc = "curve"
    /\ i <= Len(activity_ids)
    /\ LET fetched == get_activity_details_json(activity_ids[i])
       IN  /\ details' = fetched
           /\ IF Truthy(Blobs[fetched]) /\ ParsedFrame[fetched].raised
              THEN pc' = "raised" /\ UNCHANGED <<i, j>>
              ELSE IF CurveSkip(fetched)
              THEN pc' = "curve" /\ i' = i + 1 /\ UNCHANGED j
              ELSE pc' = "curve_duration" /\ j' = 1 /\ UNCHANGED i
    /\ UNCHANGED <<db, args, activity_ids, curve, cp_result, best_steady,
                   ftp_modeled, decouplings, decoupling, result>>

\* the comparison of line 50 as "differs from", then as "not below", then
\* as "first positive value"
BetterPowerAny(val, best) == val # best
BetterPowerFirst(val, best) == best = Zero /\ RLess(Zero, val)
BetterPowerOrEqual(val, best) == RLeq(best, val)

\* lines 50-52: strict improvement replaces the pair
BetterPower(val, best) == RLess(best, val)

\* lines 48-52: one pass of the inner loop
CurveDuration ==
    /\ pc = "curve_duration"
    /\ LET duration == mmp_durations[j]
           val == RollingMaxPower[details][j]
       IN  IF BetterPower(val, best_powers[duration])
           THEN /\ best_powers' = [best_powers EXCEPT ![duration] = val]
                /\ contributing_activities' =
                      [contributing_activities EXCEPT ![duration] = activity_ids[i]]
           ELSE UNCHANGED curve
    /\ IF j < Len(mmp_durations)
       THEN j' = j + 1 /\ UNCHANGED <<i, pc>>
       ELSE i' = i + 1 /\ pc' = "curve" /\ UNCHANGED j
    /\ UNCHANGED <<db, args, activity_ids, details, cp_result, best_steady,
                   ftp_modeled, decouplings, decoupling, result>>

\* line 54
CurveReturn ==
    /\ pc = "curve"
    /\ i > Len(activity_ids)
    /\ pc' = "fit"
    /\ UNCHANGED <<db, args, activity_ids, i, j, details, curve, cp_result,
                   best_steady, ftp_modeled, decouplings, decoupling, result>>

(***************************************************************************)
(* estimate_ftp_advanced, step 2: lines 160-164                            *)
(***************************************************************************)
\* the call without the early return of lines 161-162
HasErrorIgnored(fitted) == FALSE

\* line 161: 'error' in cp_result
HasError(fitted) == "error" \in DOMAIN fitted

FitCP ==
    /\ pc = "fit"
    /\ LET fitted == fit_cp_model(best_powers)
       IN  /\ cp_result' = fitted
           /\ IF HasError(fitted)
              THEN result' = fitted /\ pc' = "done"
              ELSE pc' = "steady_call" /\ UNCHANGED result
    /\ UNCHANGED <<db, args, activity_ids, i, j, details, curve, best_steady,
                   ftp_modeled, decouplings, decoupling>>

(***************************************************************************)
(* find_best_steady_state (step 4)                                         *)
(***************************************************************************)
\* lines 82-83
SteadyCall ==
    /\ pc = "steady_call"
    /\ activity_ids' = get_recent_activity_ids(days, activity_types)
    /\ best_steady' = NoSteady
    /\ i' = 1
    /\ pc' = "steady"
    /\ UNCHANGED <<db, args, j, details, curve, cp_result, ftp_modeled,
                   decouplings, decoupling, result>>

\* lines 87 and 89
SteadySkip(blob) ==
    \/ ~Truthy(Blobs[blob])
    \/ IsEmpty(ParsedFrame[blob])
    \/ ~HasColumn(ParsedFrame[blob], "power")

\* lines 85-89
SteadyFetch ==
    /\ pc = "steady"
    /\ i <= Len(activity_ids)
    /\ LET fetched == get_activity_details_json(activity_ids[i])
       IN  /\ details' = fetched
           /\ IF Truthy(Blobs[fetched]) /\ ParsedFrame[fetched].raised
              THEN pc' = "raised" /\ UNCHANGED <<i, j>>
              ELSE IF SteadySkip(fetched)
              THEN pc' = "steady" /\ i' = i + 1 /\ UNCHANGED j
              ELSE pc' = "steady_duration" /\ j' = 1 /\ UNCHANGED i
    /\ UNCHANGED <<db, args, activity_ids, curve, cp_result, best_steady,
                   ftp_modeled, decouplings, decoupling, result>>

\* lines 98-126: one pass of the inner loop
SteadyDuration ==
    /\ pc = "steady_duration"
    /\ LET cand == SteadyWindows[details][j]
       IN  IF cand.raised
           THEN pc' = "raised" /\ UNCHANGED <<i, j, best_steady>>
           ELSE /\ best_steady' = RetainSteady(best_steady, cand,
                                               steady_durations[j], activity_ids[i])
                /\ IF j < Len(steady_durations)
                   THEN j' = j + 1 /\ UNCHANGED <<i, pc>>
                   ELSE i' = i + 1 /\ pc' = "steady" /\ UNCHANGED j
    /\ UNCHANGED <<db, args, activity_ids, details, curve, cp_result,
                   ftp_modeled, decouplings, decoupling, result>>

\* line 128
SteadyReturn ==
    /\ pc = "steady"
    /\ i > Len(activity_ids)
    /\ pc' = "clamp"
    /\ UNCHANGED <<db, args, activity_ids, i, j, details, curve, cp_result,
                   best_steady, ftp_modeled, decouplings, decoupling, result>>

(***************************************************************************)
(* estimate_ftp_advanced, steps 3-4: lines 172-186                         *)
(***************************************************************************)
Clamp ==
    /\ pc = "clamp"
    /\ ftp_modeled' = ClampModeled(cp_result.cp, best_steady.power)
    /\ pc' = "decoupling_call"
    /\ UNCHANGED <<db, args, activity_ids, i, j, details, curve, cp_result,
                   best_steady, decouplings, decoupling, result>>

(***************************************************************************)
(* get_avg_decoupling (step 5)                                             *)
(***************************************************************************)
\* lines 135-136
DecouplingCall ==
    /\ pc = "decoupling_call"
    /\ activity_ids' = get_recent_activity_ids(days, activity_types)
    /\ decouplings' = <<>>
    /\ i' = 1
    /\ pc' = "decoupling"
    /\ UNCHANGED <<db, args, j, details, curve, cp_result, best_steady,
                   ftp_modeled, decoupling, result>>

\* lines 140 and 142
DecouplingSkip(blob) ==
    \/ ~Truthy(Blobs[blob])
    \/ ParsedFrame[blob].nrows < Ticks(3600)

\* lines 138-147
DecouplingVisit ==
    /\ pc = "decoupling"
    /\ i <= Len(activity_ids)
    /\ LET fetched == get_activity_details_json(activity_ids[i])
       IN  /\ details' = fetched
           /\ IF Truthy(Blobs[fetched]) /\ ParsedFrame[fetched].raised
              THEN pc' = "raised" /\ UNCHANGED <<i, decouplings>>
              ELSE /\ decouplings' =
                         IF DecouplingSkip(fetched) THEN decouplings
                         ELSE KeepDecoupling(decouplings, Decoupling[fetched])
                   /\ i' = i + 1
                   /\ UNCHANGED pc
    /\ UNCHANGED <<db, args, activity_ids, j, curve, cp_result, best_steady,
                   ftp_modeled, decoupling, result>>

\* lines 149-150
DecouplingReturn ==
    /\ pc = "decoupling"
    /\ i > Len(activity_ids)
    /\ decoupling' = MeanDecoupling(decouplings)
    /\ pc' = "blend"
    /\ UNCHANGED <<db, args, activity_ids, i, j, details, curve, cp_result,
                   best_steady, ftp_modeled, decouplings, result>>

(***************************************************************************)
(* estimate_ftp_advanced, step 6 and the returned dict: lines 202-222      *)
(***************************************************************************)
Estimate(final_ftp) ==
    [ftp_watts |-> final_ftp,
     confidence_score |-> Confidence(decoupling),
     cp_watts |-> cp_result.cp,
     w_prime |-> cp_result.w_prime,
     best_steady_power |-> best_steady.power,
     best_steady_duration_m |-> Rat(best_steady.duration, 60),
     hr_decoupling_avg |-> decoupling,
     data_coverage_days |-> days]

Blend ==
    /\ pc = "blend"
    /\ result' = Estimate(FinalFtp(ftp_modeled, best_steady.power, decoupling))
    /\ pc' = "done"
    /\ UNCHANGED <<db, args, activity_ids, i, j, details, curve, cp_result,
                   best_steady, ftp_modeled, decouplings, decoupling>>

Next ==
    \/ CurveCall \/ CurveFetch \/ CurveDuration \/ CurveReturn
    \/ FitCP
    \/ SteadyCall \/ SteadyFetch \/ SteadyDuration \/ SteadyReturn
    \/ Clamp
    \/ DecouplingCall \/ DecouplingVisit \/ DecouplingReturn
    \/ Blend

Spec == Init /\ [][Next]_vars

(***************************************************************************)
(* Properties of estimate_ftp_advanced                                     *)
(***************************************************************************)
EstimateKeys ==
    {"ftp_watts", "confidence_score", "cp_watts", "w_prime", "best_steady_power",
     "best_steady_duration_m", "hr_decoupling_avg", "data_coverage_days"}
IsEstimate(res) == DOMAIN res = EstimateKeys
IsInsufficientData(res) == DOMAIN res = {"error"}
Returned == pc = "done"

\* the payloads the scan of the call goes over, in scan order
ScannedBlobs ==
    [n \in 1..Len(activity_ids) |-> activity_details[activity_ids[n]]]
\* payloads on which a statement inside the try block of the parser raises
RaisingBlobs == {b \in 1..Len(Blobs) : ParseBody(Blobs[b]).raised}
\* the curve points that qualify for the fit: duration >= 180 and power > 0
Qualifying(mmp_curve) ==
    {d \in DOMAIN mmp_curve : d >= 180 /\ RLess(Zero, mmp_curve[d])}

\* C1: whatever the stored activities hold (no details, {}, a payload that
\* makes the parser raise, no power column, null power samples, fewer samples
\* than every window), the call never raises, and what it returns is either
\* the full estimate or the error result of the CP fit.
C1_NeverRaises ==
    /\ pc # "raised"
    /\ Returned => \/ IsEstimate(result)
                   \/ IsInsufficientData(result) /\ result = cp_result

\* a full estimate returned although a scanned payload made the parser raise
C1_Witness ==
    /\ Returned
    /\ IsEstimate(result)
    /\ \E n \in 1..Len(ScannedBlobs) : ScannedBlobs[n] \in RaisingBlobs

\* C2: once the curve is built, fewer than 2 qualifying points mean that the
\* call has returned, that the result holds an error and nothing else, and
\* that neither find_best_steady_state nor get_avg_decoupling was started.
C2_EndsAtFit ==
    (pc \notin {"call", "curve", "curve_duration", "fit"}
        /\ Cardinality(Qualifying(best_powers)) < 2)
    => /\ Returned
       /\ DOMAIN result = {"error"}
       /\ best_steady = Pending
       /\ decouplings = <<>>

\* the error result returned for a corpus with exactly one qualifying point
C2_Witness ==
    /\ Returned
    /\ DOMAIN result = {"error"}
    /\ Cardinality(Qualifying(best_powers)) = 1

\* C3: after the clamp the modeled FTP is 1.10 x best steady power when a
\* steady effort exists and the fitted CP exceeds that bound, and the fitted
\* CP otherwise; CP = 300 with steady = 250 gives 275.
C3_Clamp ==
    /\ ClampModeled(RInt(300), RInt(250)) = RInt(275)
    /\ (pc \in {"decoupling_call", "decoupling", "blend"}
            \/ (Returned /\ IsEstimate(result)))
       => ftp_modeled =
             IF RLess(Zero, best_steady.power)
                /\ RLess(RMul(Rat(11, 10), best_steady.power), cp_result.cp)
             THEN RMul(Rat(11, 10), best_steady.power)
             ELSE cp_result.cp

\* an estimate whose modeled FTP was clamped below the fitted CP
C3_Witness ==
    /\ Returned
    /\ IsEstimate(result)
    /\ RLess(ftp_modeled, cp_result.cp)
    /\ ftp_modeled = RMul(Rat(11, 10), best_steady.power)

\* C4: the returned ftp_watts is 0.7 x modeled + 0.3 x steady when a steady
\* effort exists and the average decoupling is <= 7.0, 0.5 x modeled +
\* 0.5 x steady when it is > 7.0, and the modeled FTP, which is then the
\* fitted CP, when no steady effort exists.
C4_Blend ==
    (Returned /\ IsEstimate(result))
    => /\ result.ftp_watts =
             IF ~RLess(Zero, result.best_steady_power) THEN ftp_modeled
             ELSE IF RLeq(result.hr_decoupling_avg, RInt(7))
             THEN RAdd(RMul(Rat(7, 10), ftp_modeled),
                       RMul(Rat(3, 10), result.best_steady_power))
             ELSE RAdd(RMul(Rat(1, 2), ftp_modeled),
                       RMul(Rat(1, 2), result.best_steady_power))
       /\ (~RLess(Zero, result.best_steady_power)
              => result.ftp_watts = result.cp_watts)

\* an even blend: decoupling above 7.0 with a steady effort below the model
C4_Witness ==
    /\ Returned
    /\ IsEstimate(result)
    /\ RLess(RInt(7), result.hr_decoupling_avg)
    /\ RLess(Zero, result.best_steady_power)
    /\ RLess(result.best_steady_power, ftp_modeled)

\* C5: every returned estimate has confidence_score 0.8 when the average
\* decoupling is < 5.0 and 0.5 otherwise, hence a score in {0.5, 0.8}, and
\* 0.5 whenever the blend was even because the decoupling was > 7.0.
C5_Confidence ==
    (Returned /\ IsEstimate(result))
    => /\ result.confidence_score =
             IF RLess(result.hr_decoupling_avg, RInt(5)) THEN Rat(8, 10)
             ELSE Rat(5, 10)
       /\ result.confidence_score \in {Rat(5, 10), Rat(8, 10)}
       /\ (RLess(RInt(7), result.hr_decoupling_avg)
              => result.confidence_score = Rat(5, 10))

\* an evenly blended estimate, which carries the score 0.5
C5_Witness ==
    /\ Returned
    /\ IsEstimate(result)
    /\ RLess(RInt(7), result.hr_decoupling_avg)
    /\ RLess(Zero, result.best_steady_power)
    /\ result.confidence_score = Rat(5, 10)

(***************************************************************************)
(* The two scans as functions of the scan order                            *)
(***************************************************************************)
\* lines 42-52 for the duration at position jx, over the payloads of scan
RECURSIVE SeasonBest(_, _, _)
SeasonBest(scan, jx, best) ==
    IF scan = <<>> THEN best
    ELSE SeasonBest(Tail(scan), jx,
                    IF ~CurveSkip(Head(scan))
                       /\ BetterPower(RollingMaxPower[Head(scan)][jx], best)
                    THEN RollingMaxPower[Head(scan)][jx]
                    ELSE best)

\* lines 85-126 over the payloads of scan; the payload stands for its id
RECURSIVE SteadyScan(_, _)
SteadyScan(scan, best) ==
    IF scan = <<>> THEN best
    ELSE SteadyScan(Tail(scan),
                    IF SteadySkip(Head(scan)) THEN best
                    ELSE RetainSteady(
                             RetainSteady(best, SteadyWindows[Head(scan)][1],
                                          steady_durations[1], Head(scan)),
                             SteadyWindows[Head(scan)][2],
                             steady_durations[2], Head(scan)))

Perms(n) ==
    {f \in [1..n -> 1..n] : \A a, b \in 1..n : a # b => f[a] # f[b]}
Permuted(scan, f) == [n \in 1..Len(scan) |-> scan[f[n]]]
\* the payloads of scan at the positions in S, in scan order
RECURSIVE SubScan(_, _, _)
SubScan(scan, S, n) ==
    IF n > Len(scan) THEN <<>>
    ELSE (IF n \in S THEN <<scan[n]>> ELSE <<>>) \o SubScan(scan, S, n + 1)

DurationAt == 1..Len(mmp_durations)
CurveBuilt == pc = "fit"

\* C6: at every step of the scan the best value of each duration is at least
\* what it was, and the final best value over the scanned activities is at
\* least the final best value over any subset of them.
C6_Monotone ==
    /\ [][pc # "call" =>
             \A d \in DOMAIN best_powers : RLeq(best_powers[d], best_powers'[d])]_vars
    /\ [](CurveBuilt =>
             \A S \in SUBSET (1..Len(ScannedBlobs)) : \A jx \in DurationAt :
                 RLeq(SeasonBest(SubScan(ScannedBlobs, S, 1), jx, Zero),
                      best_powers[mmp_durations[jx]]))

\* a further activity raised a best value that an earlier one had set
C6_Witness ==
    /\ CurveBuilt
    /\ \E jx \in DurationAt :
          /\ RLess(Zero, SeasonBest(SubScan(ScannedBlobs, {1}, 1), jx, Zero))
          /\ RLess(SeasonBest(SubScan(ScannedBlobs, {1}, 1), jx, Zero),
                   best_powers[mmp_durations[jx]])

\* the scanned activities that reach the best value of the duration at jx
Holders(jx) ==
    {n \in 1..Len(ScannedBlobs) :
        /\ ~CurveSkip(ScannedBlobs[n])
        /\ RollingMaxPower[ScannedBlobs[n]][jx] = best_powers[mmp_durations[jx]]}

\* C7: a step changes the (best value, contributing id) pair of a duration
\* only when the scanned activity's value is strictly greater than the best,
\* and then to that value and id; at the end a positive best is credited to
\* the earliest scanned activity that reaches it, and a best of 0 to none.
C7_StrictReplace ==
    /\ [][pc # "call" =>
             \A jx \in DurationAt :
                (\/ best_powers'[mmp_durations[jx]] # best_powers[mmp_durations[jx]]
                 \/ contributing_activities'[mmp_durations[jx]]
                        # contributing_activities[mmp_durations[jx]])
                => /\ pc = "curve_duration" /\ jx = j
                   /\ RLess(best_powers[mmp_durations[jx]],
                            RollingMaxPower[details][jx])
                   /\ best_powers'[mmp_durations[jx]] = RollingMaxPower[details][jx]
                   /\ contributing_activities'[mmp_durations[jx]] = activity_ids[i]]_vars
    /\ [](CurveBuilt =>
             \A jx \in DurationAt :
                IF best_powers[mmp_durations[jx]] = Zero
                THEN contributing_activities[mmp_durations[jx]] = None
                ELSE /\ Holders(jx) # {}
                     /\ contributing_activities[mmp_durations[jx]]
                           = activity_ids[SetMin(Holders(jx))])

\* two activities tie on a positive best value, and another best stays 0
C7_Witness ==
    /\ CurveBuilt
    /\ \E jx \in DurationAt :
          /\ RLess(Zero, best_powers[mmp_durations[jx]])
          /\ Cardinality(Holders(jx)) >= 2
    /\ \E jx \in DurationAt : best_powers[mmp_durations[jx]] = Zero

\* C8: the curve has one value for each of the 7 durations, and the value is
\* the maximum, over the scanned activities with at least d power samples, of
\* the largest mean of d consecutive samples, or 0 when there is none.
C8_CurveValues ==
    CurveBuilt =>
       /\ DOMAIN best_powers = {180, 300, 600, 1200, 1800, 2400, 3600}
       /\ \A jx \in DurationAt :
             best_powers[mmp_durations[jx]] =
                RMaxOf({Zero} \cup
                       {WindowBest[ScannedBlobs[n]][jx] :
                           n \in {m \in 1..Len(ScannedBlobs) :
                                     Len(Samples[ScannedBlobs[m]])
                                        >= Ticks(mmp_durations[jx])}})

\* an activity too short for 3600 s is scanned with one of exactly 3600 s
C8_Witness ==
    /\ CurveBuilt
    /\ RLess(Zero, best_powers[3600])
    /\ \E n, m \in 1..Len(ScannedBlobs) :
          /\ Len(Samples[ScannedBlobs[n]]) = Ticks(3600)
          /\ Len(Samples[ScannedBlobs[m]]) \in 1..(Ticks(3600) - 1)
          /\ RLess(best_powers[3600], best_powers[180])

\* C9: every scan order of the same activities gives the same best value for
\* every duration and the same best steady power.
C9_OrderIndependent ==
    /\ CurveBuilt =>
          \A f \in Perms(Len(ScannedBlobs)) : \A jx \in DurationAt :
             SeasonBest(Permuted(ScannedBlobs, f), jx, Zero)
                = best_powers[mmp_durations[jx]]
    /\ pc = "clamp" =>
          \A f \in Perms(Len(ScannedBlobs)) :
             SteadyScan(Permuted(ScannedBlobs, f), NoSteady).power
                = best_steady.power

\* two activities with accepted steady efforts of different power, the
\* weaker one scanned last
C9_Witness ==
    /\ pc = "clamp"
    /\ Len(ScannedBlobs) >= 2
    /\ RLess(Zero, SteadyScan(SubScan(ScannedBlobs, {Len(ScannedBlobs)}, 1),
                              NoSteady).power)
    /\ RLess(SteadyScan(SubScan(ScannedBlobs, {Len(ScannedBlobs)}, 1),
                        NoSteady).power,
             best_steady.power)

(***************************************************************************)
(* fit_cp_model on its own: every curve over FitDurations with powers in   *)
(* -1..MaxFitPower                                                         *)
(***************************************************************************)
MaxFitPower == 3
FitDurations == {60, 120, 180, 300, 600}
FitPowers == {RInt(w) : w \in -1..MaxFitPower}

\* the curve {180: 300, 600: 280, 1200: 260} of the fitter's worked example
ExampleCurve == [t \in {180, 600, 1200} |->
                    CASE t = 180 -> RInt(300) [] t = 600 -> RInt(280)
                      [] OTHER -> RInt(260)]

FitInit ==
    /\ best_powers \in [FitDurations -> FitPowers] \cup {ExampleCurve}
    /\ pc = "fit_model"
    /\ activities = <<>>
    /\ activity_details = <<>>
    /\ days = LookbackDays
    /\ activity_types = <<>>
    /\ activity_ids = <<>>
    /\ i = 0
    /\ j = 0
    /\ details = None
    /\ contributing_activities = Pending
    /\ cp_result = Pending
    /\ best_steady = Pending
    /\ ftp_modeled = Zero
    /\ decouplings = <<>>
    /\ decoupling = Zero
    /\ result = Pending

\* lines 56-75 applied to the curve
FitModel ==
    /\ pc = "fit_model"
    /\ cp_result' = fit_cp_model(best_powers)
    /\ pc' = "fitted"
    /\ UNCHANGED <<db, args, activity_ids, i, j, details, curve, best_steady,
                   ftp_modeled, decouplings, decoupling, result>>

FitNext == FitModel
FitSpec == FitInit /\ [][FitNext]_vars

\* the residual of the line cp * t + w_prime at the point t of the curve
Residual(fitted, mmp_curve, t) ==
    RSub(RAdd(RMul(fitted.cp, RInt(t)), fitted.w_prime),
         RMul(mmp_curve[t], RInt(t)))

\* C10: fit_cp_model returns the error result exactly when fewer than 2
\* points have duration >= 180 and power > 0; otherwise it returns cp and
\* w_prime, the least-squares line through exactly those points (its
\* residuals over them sum to 0, plain and weighted by duration).
C10_FitOutcome ==
    pc = "fitted" =>
       /\ HasError(cp_result) <=> Cardinality(Qualifying(best_powers)) < 2
       /\ HasError(cp_result) => DOMAIN cp_result = {"error"}
       /\ ~HasError(cp_result) =>
             /\ DOMAIN cp_result = {"cp", "w_prime"}
             /\ SetSum(Qualifying(best_powers),
                       [t \in Qualifying(best_powers) |->
                           Residual(cp_result, best_powers, t)]) = Zero
             /\ SetSum(Qualifying(best_powers),
                       [t \in Qualifying(best_powers) |->
                           RMul(RInt(t), Residual(cp_result, best_powers, t))]) = Zero

\* the error result for a curve with two positive points, one under 180 s
C10_Witness ==
    /\ pc = "fitted"
    /\ HasError(cp_result)
    /\ Cardinality({t \in DOMAIN best_powers : RLess(Zero, best_powers[t])}) >= 2

\* C11: on the curve {180: 300, 600: 280, 1200: 260} fit_cp_model returns the
\* least-squares line of work = power x duration against duration, computed by
\* hand as cp = 18400/73 (about 252.05) and w_prime = 850000/73 (about
\* 11643.8): cp is below 260 and w_prime is positive.
C11_ExampleFit ==
    (pc = "fitted" /\ best_powers = ExampleCurve) =>
       /\ DOMAIN cp_result = {"cp", "w_prime"}
       /\ cp_result.cp = Rat(18400, 73)
       /\ cp_result.w_prime = Rat(850000, 73)
       /\ RLess(cp_result.cp, RInt(260))
       /\ RLess(Zero, cp_result.w_prime)

\* the example curve has been fitted
C11_Witness ==
    /\ pc = "fitted"
    /\ best_powers = ExampleCurve
    /\ ~HasError(cp_result)

(***************************************************************************)
(* Properties of find_best_steady_state                                    *)
(***************************************************************************)
SteadyAt == 1..Len(steady_durations)
\* the window of payload b at steady duration jx was evaluated and accepted
Accepted(b, jx) ==
    /\ ~SteadySkip(b)
    /\ ~SteadyWindows[b][jx].skip
    /\ RLeq(SteadyWindows[b][jx].vi, Rat(105, 100))
SteadyDone == pc = "clamp"

\* C12: from its initialisation on, the retained effort is the null result
\* (power 0, duration 0, no id, vi 0) or a window with vi <= 1.05, power > 0
\* and duration 2400 or 3600 of a scanned activity; when no evaluated window
\* has vi <= 1.05 and positive power the scan ends with the null result.
C12_RetainedEffort ==
    /\ best_steady # Pending =>
          \/ best_steady = NoSteady
          \/ /\ RLeq(best_steady.vi, Rat(105, 100))
             /\ RLess(Zero, best_steady.power)
             /\ best_steady.duration \in {2400, 3600}
             /\ \E n \in 1..Len(activity_ids) :
                   best_steady.activity_id = activity_ids[n]
    /\ (SteadyDone
          /\ \A n \in 1..Len(ScannedBlobs) : \A jx \in SteadyAt :
                ~(Accepted(ScannedBlobs[n], jx)
                    /\ RLess(Zero, SteadyWindows[ScannedBlobs[n]][jx].power)))
       => best_steady = NoSteady

\* the null result at the end of a scan that evaluated a window and found its
\* variability index above 1.05
C12_Witness ==
    /\ SteadyDone
    /\ best_steady = NoSteady
    /\ \E n \in 1..Len(ScannedBlobs) : \E jx \in SteadyAt :
          /\ ~SteadySkip(ScannedBlobs[n])
          /\ ~SteadyWindows[ScannedBlobs[n]][jx].skip
          /\ RLess(Rat(105, 100), SteadyWindows[ScannedBlobs[n]][jx].vi)

\* the candidates of the scan in the order they are met: position n of the
\* scan, then 2400 before 3600
Candidates == {<<n, jx>> : n \in 1..Len(ScannedBlobs), jx \in SteadyAt}
Earlier(a, b) == a[1] < b[1] \/ (a[1] = b[1] /\ a[2] < b[2])
Reference(c) == SteadyReference[ScannedBlobs[c[1]]][c[2]]
\* candidates whose window of largest mean has NP / mean <= 1.05
Qualified ==
    {c \in Candidates : /\ ~Reference(c).none
                        /\ RLess(Zero, Reference(c).best.power)
                        /\ RLeq(Reference(c).best.vi, Rat(105, 100))}
Strongest ==
    {c \in Qualified :
        \A o \in Qualified : RLeq(Reference(o).best.power, Reference(c).best.power)}
FirstStrongest ==
    CHOOSE c \in Strongest : \A o \in Strongest : o = c \/ Earlier(c, o)

\* C13: the scan returns, of the windows of largest rolling mean power (one
\* per activity and window length) whose VI = NP / mean is <= 1.05, the one
\* of highest mean power with its duration, activity id and VI, the earliest
\* met of them when several have that power; none gives the null result.
C13_BestSteady ==
    SteadyDone =>
       IF Qualified = {} THEN best_steady = NoSteady
       ELSE best_steady =
               [power |-> Reference(FirstStrongest).best.power,
                duration |-> steady_durations[FirstStrongest[2]],
                activity_id |-> activity_ids[FirstStrongest[1]],
                vi |-> Reference(FirstStrongest).best.vi]

\* two activities hold qualified windows of the same, highest mean power
C13_Witness ==
    /\ SteadyDone
    /\ \E a, b \in Strongest : a[1] # b[1]
    /\ \E c \in Candidates :
          ~Reference(c).none /\ RLess(Rat(105, 100), Reference(c).best.vi)

(***************************************************************************)
(* Properties of get_avg_decoupling                                        *)
(***************************************************************************)
\* lines 138-150 over the payloads of scan
RECURSIVE DecouplingScan(_, _)
DecouplingScan(scan, kept) ==
    IF scan = <<>> THEN MeanDecoupling(kept)
    ELSE DecouplingScan(Tail(scan),
                        IF DecouplingSkip(Head(scan)) THEN kept
                        ELSE KeepDecoupling(kept, Decoupling[Head(scan)]))

DecouplingDone == pc = "blend"
\* a payload of at least 3600 samples without a power or a heart-rate column
LongWithoutColumn(b) ==
    /\ Truthy(Blobs[b])
    /\ ParsedFrame[b].nrows >= Ticks(3600)
    /\ \/ ~HasColumn(ParsedFrame[b], "power")
       \/ ~HasColumn(ParsedFrame[b], "heart_rate")

\* C14: the average decoupling of a corpus that holds an activity of at least
\* 3600 samples without a power or a heart-rate column is the average of the
\* corpus without that activity.
C14_MissingColumnIgnored ==
    DecouplingDone =>
       \A n \in 1..Len(ScannedBlobs) :
          LongWithoutColumn(ScannedBlobs[n])
          => decoupling
                = DecouplingScan(SubScan(ScannedBlobs,
                                         (1..Len(ScannedBlobs)) \ {n}, 1), <<>>)

Between(d) == RLess(RInt(-20), d) /\ RLess(d, RInt(30))
\* scan positions whose activity is long enough to get a decoupling value
Analysed == {n \in 1..Len(ScannedBlobs) : ~DecouplingSkip(ScannedBlobs[n])}
KeptAt == {n \in Analysed : Between(Decoupling[ScannedBlobs[n]])}

\* C15: only values strictly between -20 and 30 are kept (-20 and 30 are
\* discarded), the result is the arithmetic mean of the kept values and 0 when
\* none is kept, hence always strictly between -20 and 30.
C15_KeptValues ==
    /\ \A k \in 1..Len(decouplings) : Between(decouplings[k])
    /\ DecouplingDone =>
          /\ Len(decouplings) = Cardinality(KeptAt)
          /\ decoupling =
                IF KeptAt = {} THEN Zero
                ELSE RDiv(SetSum(KeptAt, [n \in KeptAt |-> Decoupling[ScannedBlobs[n]]]),
                          RInt(Cardinality(KeptAt)))
          /\ Between(decoupling)

\* a value of exactly 30 or exactly -20 was met and another value was kept
C15_Witness ==
    /\ DecouplingDone
    /\ KeptAt # {}
    /\ \E n \in Analysed :
          Decoupling[ScannedBlobs[n]] \in {RInt(30), RInt(-20)}

(***************************************************************************)
(* calculate_normalized_power and calculate_decoupling on their own, one   *)
(* model sample per source sample and the window of 30: every series of up *)
(* to MaxSeriesLen samples whose power and heart rate each take one value  *)
(* up to the floor-midpoint and one value after it                         *)
(***************************************************************************)
MaxSeriesLen == 62
SeriesPowers == {0, 1, 2}
SeriesRates == {0, 100, 110}

StepSeries(n, a, b) ==
    AsSeq([ix \in 1..n |-> IF ix <= n \div 2 THEN a ELSE b], 1, n)
StepFrame(n, p1, p2, h1, h2) ==
    Frame(n, <<[name |-> "power", vals |-> StepSeries(n, p1, p2)],
               [name |-> "heart_rate", vals |-> StepSeries(n, h1, h2)]>>)
SeriesFrames ==
    {StepFrame(n, p1, p2, h1, h2) :
        n \in 0..MaxSeriesLen, p1 \in SeriesPowers, p2 \in SeriesPowers,
        h1 \in SeriesRates, h2 \in SeriesRates}

\* details holds the DataFrame, result the normalized power
SeriesInit ==
    /\ details \in SeriesFrames
    /\ pc = "series"
    /\ activities = <<>>
    /\ activity_details = <<>>
    /\ days = LookbackDays
    /\ activity_types = <<>>
    /\ activity_ids = <<>>
    /\ i = 0
    /\ j = 0
    /\ best_powers = Pending
    /\ contributing_activities = Pending
    /\ cp_result = Pending
    /\ best_steady = Pending
    /\ ftp_modeled = Zero
    /\ decouplings = <<>>
    /\ decoupling = Zero
    /\ result = Pending

\* activity_parser.py lines 94-114 applied to the power column
NormalizedPower ==
    /\ pc = "series"
    /\ result' = calculate_normalized_power(Column(details, "power"), NPWindow)
    /\ pc' = "normalized"
    /\ UNCHANGED <<db, args, activity_ids, i, j, details, curve, cp_result,
                   best_steady, ftp_modeled, decouplings, decoupling>>

\* activity_parser.py lines 116-146 applied to the frame
Decouple ==
    /\ pc = "series"
    /\ decoupling' = calculate_decoupling(details, NPWindow)
    /\ pc' = "decoupled"
    /\ UNCHANGED <<db, args, activity_ids, i, j, details, curve, cp_result,
                   best_steady, ftp_modeled, decouplings, result>>

SeriesNext == NormalizedPower \/ Decouple
SeriesSpec == SeriesInit /\ [][SeriesNext]_vars

IsConstant(s) == \A a \in 1..Len(s) : \A b \in 1..Len(s) : s[a] = s[b]
Flat(df) ==
    /\ IsConstant(Column(df, "power"))
    /\ IsConstant(Column(df, "heart_rate"))

\* C16: calculate_decoupling returns 0 for every frame whose power is one
\* constant value and whose heart rate is one constant value, whatever its
\* length: even or odd, halves shorter than the window of 30 or not.
C16_FlatDecoupling ==
    (pc = "decoupled" /\ Flat(details)) => decoupling = Zero

\* a flat frame of odd length whose halves both fill the window, with
\* positive power and heart rate: both efficiency factors are computed
C16_Witness ==
    /\ pc = "decoupled"
    /\ Flat(details)
    /\ details.nrows % 2 = 1
    /\ details.nrows \div 2 >= NPWindow
    /\ Column(details, "power")[1] > 0
    /\ Column(details, "heart_rate")[1] > 0
    /\ decoupling = Zero

\* C17: calculate_normalized_power of a series whose every sample is v and
\* whose length is at least the window of 30 returns v; of an empty series
\* or of a series shorter than the window it returns 0.
C17_ConstantPower ==
    pc = "normalized" =>
       LET power == Column(details, "power")
       IN  /\ (Len(power) >= NPWindow /\ IsConstant(power))
              => result = RInt(power[1])
           /\ Len(power) < NPWindow => result = Zero

\* a constant series of 2 W that fills the window
C17_Witness ==
    /\ pc = "normalized"
    /\ IsConstant(Column(details, "power"))
    /\ Len(Column(details, "power")) >= NPWindow
    /\ result = RInt(2)

(***************************************************************************)
(* parse_activity_details on its own: every payload with up to             *)
(* MaxDescriptors descriptors drawn from ParseDescs over a few sample      *)
(* lists, and the payloads that are no dict or lack one of the two lists   *)
(***************************************************************************)
MaxDescriptors == 3
ParseKeys == {"directPower", "directCadence", "directBikeCadence"}
\* descriptors with index and key, one without index, one without key
ParseDescs ==
    {Desc(ix, k) : ix \in {0, 1}, k \in ParseKeys}
        \cup {Desc(NoIndex, "directPower"), Desc(0, "")}
DescLists == UNION {[1..n -> ParseDescs] : n \in 0..MaxDescriptors}
\* sample lists: complete, one sample without metrics, only such samples,
\* a sample whose metrics is null, no sample
SampleLists ==
    {<<Run(Entry(<<1, 2>>), 1), Run(Entry(<<3, 4>>), 1)>>,
     <<Run(Entry(<<1, 2>>), 1), Run(EntryNoMetrics, 1)>>,
     <<Run(EntryNoMetrics, 1)>>,
     <<Run(Entry(<<5>>), 1), Run(EntryNullMetrics, 1)>>,
     <<>>}
ParsePayloads ==
    {Payload(descs, runs) : descs \in DescLists, runs \in SampleLists}
        \cup {JsonNull, JsonEmptyDict, JsonText,
              [Payload(<<>>, <<Run(Entry(<<1, 2>>), 1)>>)
                  EXCEPT !.hasDescriptors = FALSE],
              [Payload(<<Desc(0, "directPower")>>, <<>>)
                  EXCEPT !.hasMetrics = FALSE]}

\* details holds the payload, result the returned DataFrame
ParseInit ==
    /\ details \in ParsePayloads
    /\ pc = "payload"
    /\ activities = <<>>
    /\ activity_details = <<>>
    /\ days = LookbackDays
    /\ activity_types = <<>>
    /\ activity_ids = <<>>
    /\ i = 0
    /\ j = 0
    /\ best_powers = Pending
    /\ contributing_activities = Pending
    /\ cp_result = Pending
    /\ best_steady = Pending
    /\ ftp_modeled = Zero
    /\ decouplings = <<>>
    /\ decoupling = Zero
    /\ result = Pending

\* activity_parser.py lines 6-92 applied to the payload
Parse ==
    /\ pc = "payload"
    /\ result' = parse_activity_details(details)
    /\ pc' = IF parse_activity_details(details).raised THEN "raised" ELSE "parsed"
    /\ UNCHANGED <<db, args, activity_ids, i, j, details, curve, cp_result,
                   best_steady, ftp_modeled, decouplings, decoupling>>

ParseNext == Parse
ParseSpec == ParseInit /\ [][ParseNext]_vars

Usable(desc) == desc.metricsIndex # NoIndex /\ desc.key # ""
\* no value, no dict, a list missing, a sample the body cannot read, no
\* descriptor with index and key, or no sample with a metrics array
Malformed(value) ==
    \/ ~Truthy(value)
    \/ value.json # "dict"
    \/ ~value.hasDescriptors
    \/ ~value.hasMetrics
    \/ \E t \in 1..Len(value.activityDetailMetrics) :
          value.activityDetailMetrics[t].shape = "null"
    \/ \A d \in 1..Len(value.metricDescriptors) :
          ~Usable(value.metricDescriptors[d])
    \/ \A t \in 1..Len(value.activityDetailMetrics) :
          value.activityDetailMetrics[t].shape = "absent"

Reordered(value, f) ==
    [value EXCEPT !.metricDescriptors = Permuted(value.metricDescriptors, f)]

\* C19: every permutation of the descriptor list, which keeps the (index,
\* key) pairs, gives the identical DataFrame (same columns, same values),
\* also when two descriptors declare the same index.
C19_ReorderInvariant ==
    pc = "parsed" =>
       \A f \in Perms(Len(details.metricDescriptors)) :
          parse_activity_details(Reordered(details, f)) = result

CadenceColumns(df) == {c \in 1..Len(df.cols) : df.cols[c].name = "cadence"}

\* C20: the returned DataFrame has at most one column named cadence, also
\* when the payload carries two or more different cadence keys.
C20_OneCadence ==
    pc = "parsed" => Cardinality(CadenceColumns(result)) <= 1

(***************************************************************************)
(* Properties of the returned estimate                                     *)
(***************************************************************************)
\* fitted CPs just above the clamp and far above it, decouplings on both
\* sides of 7.0
BlendCps == {RInt(276), RInt(1000000)}
BlendSteady == {RInt(250)}
BlendDecouplings == {RInt(7), Rat(71, 10)}
BlendCap(avg_decoupling) ==
    IF RLeq(avg_decoupling, RInt(7)) THEN Rat(107, 100) ELSE Rat(105, 100)

\* C26: an estimate with best_steady_power > 0 has ftp_watts <= 1.07 x
\* best_steady_power when the average decoupling is <= 7.0 and <= 1.05 x
\* best_steady_power when it is > 7.0, however large the fitted CP is.
C26_FtpCap ==
    /\ \A cp \in BlendCps : \A s \in BlendSteady : \A d \in BlendDecouplings :
          RLeq(FinalFtp(ClampModeled(cp, s), s, d), RMul(BlendCap(d), s))
    /\ (Returned /\ IsEstimate(result) /\ RLess(Zero, result.best_steady_power))
       => RLeq(result.ftp_watts,
               RMul(BlendCap(result.hr_decoupling_avg), result.best_steady_power))

\* the cap of 1.07 is attained: a fitted CP above the clamp, blended 70/30
C26_Witness ==
    /\ Returned
    /\ IsEstimate(result)
    /\ RLess(Zero, result.best_steady_power)
    /\ RLeq(result.hr_decoupling_avg, RInt(7))
    /\ RLess(RMul(Rat(11, 10), result.best_steady_power), result.cp_watts)
    /\ result.ftp_watts = RMul(Rat(107, 100), result.best_steady_power)

\* payloads whose power column has a missing sample
NullPowerBlobs ==
    {b \in 1..Len(Blobs) :
        /\ HasColumn(ParsedFrame[b], "power")
        /\ \E e \in 1..ParsedFrame[b].nrows : Column(ParsedFrame[b], "power")[e] = NaN}

\* C28: over the same activities the best steady power never exceeds the
\* season-best curve value for the same window length (2400 or 3600), and
\* neither does any window the detector evaluates; this includes activities
\* with missing power samples, which the curve counts as 0 and the detector
\* leaves out.
C28_SteadyBelowCurve ==
    /\ (best_steady # Pending /\ RLess(Zero, best_steady.power))
       => RLeq(best_steady.power, best_powers[best_steady.duration])
    /\ SteadyDone =>
          \A n \in 1..Len(ScannedBlobs) : \A jx \in SteadyAt :
             (~SteadySkip(ScannedBlobs[n]) /\ ~SteadyWindows[ScannedBlobs[n]][jx].skip)
             => RLeq(SteadyWindows[ScannedBlobs[n]][jx].power,
                     best_powers[steady_durations[jx]])

\* a steady effort was retained, and an activity with a missing sample gave
\* the curve a 2400 s value while the detector found no window in it
C28_Witness ==
    /\ SteadyDone
    /\ RLess(Zero, best_steady.power)
    /\ \E n \in 1..Len(ScannedBlobs) :
          /\ ScannedBlobs[n] \in NullPowerBlobs
          /\ RLess(Zero, RollingMaxPower[ScannedBlobs[n]][6])
          /\ SteadyWindows[ScannedBlobs[n]][1].skip

\* pairs of positions in mmp_durations, the shorter duration first
DurationPairs == {pr \in DurationAt \X DurationAt : pr[1] < pr[2]}
Divides(pr) == mmp_durations[pr[2]] % mmp_durations[pr[1]] = 0

\* C29 as stated: the curve is non-increasing in duration, for any two
\* tracked durations d1 < d2 the best value for d2 is <= the one for d1.
C29_NonIncreasing ==
    CurveBuilt =>
       \A pr \in DurationPairs :
          RLeq(best_powers[mmp_durations[pr[2]]], best_powers[mmp_durations[pr[1]]])

\* C29 amended: for tracked durations d1 < d2 with d2 a multiple of d1 the
\* best value for d2 is <= the best value for d1 (power samples >= 0).
C29_NonIncreasingOnMultiples ==
    CurveBuilt =>
       \A pr \in DurationPairs :
          Divides(pr)
          => RLeq(best_powers[mmp_durations[pr[2]]],
                  best_powers[mmp_durations[pr[1]]])

\* a curve that rises from 180 s to 300 s and falls from 300 s to 600 s
C29_Witness ==
    /\ CurveBuilt
    /\ RLess(best_powers[180], best_powers[300])
    /\ RLess(Zero, best_powers[600])
    /\ RLess(best_powers[600], best_powers[300])

\* the stored type of a scanned activity
TypeOf(activity_id) ==
    (CHOOSE row \in {activities[n] : n \in 1..Len(activities)} :
        row.activity_id = activity_id).activity_type

\* C24: every activity in a scan of the call has a type in the allowlist
\* activity_types the caller passed, for every allowlist, the empty list
\* included.
C24_ScannedInAllowlist ==
    \A n \in 1..Len(activity_ids) :
       InList(TypeOf(activity_ids[n]), activity_types)

\* C27: every returned estimate has ftp_watts > 0, also when the season-best
\* points come from different activities and the fitted slope is not
\* positive.
C27_PositiveFtp ==
    (Returned /\ IsEstimate(result)) => RLess(Zero, result.ftp_watts)

\* the corpus holds the ramp activity and nothing else
RampBlob == Len(Blobs)
RampOnly == activity_details = <<RampBlob>>

\* C25: for a corpus of one 4000-sample activity whose power rises linearly
\* from 100 W to 300 W at heart rate 150, the call returns an estimate, not
\* an error, with a finite ftp_watts, confidence_score in {0.5, 0.8} and
\* best_steady_power <= 300 W (60 units of 5 W).
C25_RampEstimate ==
    (RampOnly /\ Returned) =>
       /\ IsEstimate(result)
       /\ result.ftp_watts \in Int \X (Nat \ {0})
       /\ result.confidence_score \in {Rat(5, 10), Rat(8, 10)}
       /\ RLeq(RMul(RInt(5), result.best_steady_power), RInt(300))

\* the estimate for the ramp: a steady effort over the last 2400 s
C25_Witness ==
    /\ RampOnly
    /\ Returned
    /\ IsEstimate(result)
    /\ RLess(Zero, result.best_steady_power)
    /\ result.best_steady_duration_m = RInt(40)

(***************************************************************************)
(* The call next to the ingestion job (src/main.py run_extraction, lines   *)
(* 58-66): the job upserts an activity row, then its details, each in a    *)
(* transaction of its own, at any point of the call                        *)
(***************************************************************************)
NoDetails == 1
IngestPayloads == {9, 17}

\* db_manager.py lines 168-169: a new activity, started today; its details
\* row does not exist yet
UpsertActivity ==
    /\ Len(activities) < NumActivities
    /\ activities' =
          <<[activity_id |-> Len(activities) + 1,
             activity_type |-> "cycling", age_days |-> 0]>> \o activities
    /\ activity_details' = Append(activity_details, NoDetails)
    /\ UNCHANGED <<args, pc, activity_ids, i, j, details, curve, cp_result,
                   best_steady, ftp_modeled, decouplings, decoupling, result>>

\* db_manager.py lines 171-177: the details of an activity that had none
UpsertDetails ==
    /\ \E id \in 1..Len(activity_details) : \E payload \in IngestPayloads :
          /\ activity_details[id] = NoDetails
          /\ activity_details' = [activity_details EXCEPT ![id] = payload]
    /\ UNCHANGED <<activities, args, pc, activity_ids, i, j, details, curve,
                   cp_result, best_steady, ftp_modeled, decouplings, decoupling,
                   result>>

IngestNext == Next \/ UpsertActivity \/ UpsertDetails
IngestSpec == Init /\ [][IngestNext]_vars

\* C21: within one call the steady-state detection and the decoupling
\* analysis scan the activity ids that the scan before them scanned, hence
\* all three scans the same ids, also when the ingestion job upserts between
\* the steps of the call.
C21_SameScope ==
    [][(SteadyCall \/ DecouplingCall) => activity_ids' = activity_ids]_vars

(***************************************************************************)
(* Successive calls: the caller keeps the returned dict and calls          *)
(* estimate_ftp_advanced again with the same arguments; the locals of the  *)
(* call before are garbage that the new call must not read                 *)
(***************************************************************************)
\* estimate_ftp_advanced is entered again (line 152)
CallAgain ==
    /\ pc = "done"
    /\ pc' = "call"
    /\ UNCHANGED <<db, args, activity_ids, i, j, details, curve, cp_result,
                   best_steady, ftp_modeled, decouplings, decoupling, result>>

RepeatNext == Next \/ CallAgain
RepeatSpec == Init /\ [][RepeatNext]_vars

\* C22: a call writes nothing back (the stored activities and details and
\* the arguments are left as they are; the duration set is fixed at
\* construction), and a call that returns after an earlier call with the
\* same arguments over the same storage returns the result of that call.
C22_NoRetainedState ==
    [][/\ UNCHANGED <<activities, activity_details, days, activity_types>>
       /\ (result # Pending /\ pc # "done" /\ pc' = "done") => result' = result]_vars

\* a second call that has come to its last step after a first call that
\* returned an estimate
C22_Witness ==
    /\ pc = "blend"
    /\ result # Pending
    /\ IsEstimate(result)

(***************************************************************************)
(* The call over a storage that can fail: get_connection or a query raises *)
(* inside the try blocks of db_manager.py                                  *)
(***************************************************************************)
\* db_manager.py lines 257-259: the listing fails and [] is returned to
\* the scan that asked for it (ftp_estimator.py lines 35, 82, 135)
ListingFails ==
    /\ pc \in {"call", "steady_call", "decoupling_call"}
    /\ activity_ids' = <<>>
    /\ i' = 1
    /\ CASE pc = "call" ->
               /\ best_powers' =
                     [d \in {mmp_durations[n] : n \in 1..Len(mmp_durations)} |-> Zero]
               /\ contributing_activities' =
                     [d \in {mmp_durations[n] : n \in 1..Len(mmp_durations)} |-> None]
               /\ pc' = "curve"
               /\ UNCHANGED <<best_steady, decouplings>>
         [] pc = "steady_call" ->
               /\ best_steady' = NoSteady
               /\ pc' = "steady"
               /\ UNCHANGED <<curve, decouplings>>
         [] OTHER ->
               /\ decouplings' = <<>>
               /\ pc' = "decoupling"
               /\ UNCHANGED <<curve, best_steady>>
    /\ UNCHANGED <<db, args, j, details, cp_result, ftp_modeled, decoupling,
                   result>>

\* db_manager.py lines 218-220: a detail read fails and None is returned;
\* the scan takes the continue of lines 44, 87, 140
ReadFails ==
    /\ pc \in {"curve", "steady", "decoupling"}
    /\ i <= Len(activity_ids)
    /\ details' = None
    /\ i' = i + 1
    /\ UNCHANGED <<db, args, pc, activity_ids, j, curve, cp_result, best_steady,
                   ftp_modeled, decouplings, decoupling, result>>

OutageNext == Next \/ ListingFails \/ ReadFails
OutageSpec == Init /\ [][OutageNext]_vars

\* C23: when the id listing or a detail read fails, the failure propagates
\* out of estimate_ftp_advanced; the call does not go on to return the
\* InsufficientData result or an estimate computed from fewer activities.
C23_OutagePropagates ==
    [][(\/ ListingFails /\ get_recent_activity_ids(days, activity_types) # <<>>
        \/ ReadFails)
       => pc' = "raised"]_vars


(***************************************************************************)
(* src/backfill.py: the pagination loop of backfill_data.  The variables   *)
(* hold the frame of backfill_data: activity_ids is the account's feed as  *)
(* client.get_activities pages through it, days the pair of dates of the   *)
(* call, details the batch fetched last, i start_index, j the position of  *)
(* the for loop in the batch, result keep_fetching; activities and         *)
(* activity_details are the two tables the loop upserts into               *)
(***************************************************************************)
limit == 2
MaxFeed == 4

ApiFormat == "%Y-%m-%d %H:%M:%S"
StartTime(fmt, d, t) == [format |-> fmt, date |-> d, time |-> t]
FeedDates == 1..4
StartTimes ==
    {StartTime(ApiFormat, d, 8) : d \in FeedDates}
        \cup {StartTime("%Y-%m-%dT%H:%M:%S", 2, 8)}
DateRanges == {[start_date |-> 2, end_date |-> e] : e \in {2, 3}}

\* the feeds of at most MaxFeed activities; activity k of a feed has id k
Feeds ==
    UNION {[1..n -> StartTimes] : n \in 0..MaxFeed}
Feed(times) ==
    AsSeq([k \in 1..Len(times) |->
              [activity_id |-> k, start_time |-> times[k]]], 1, Len(times))

\* garmin_client.py lines 90-116: the activities start_index+1 ..
\* start_index+limit of the feed
get_activities(feed, start_index, page) ==
    SubSeq(feed, start_index + 1,
           IF start_index + page < Len(feed) THEN start_index + page
           ELSE Len(feed))

\* datetime.strptime(act_time_str, "%Y-%m-%d %H:%M:%S").date() (line 102):
\* ValueError on another format, else the date without the time of day
strptime_date(act_time_str) ==
    IF act_time_str.format = ApiFormat
      THEN [raised |-> FALSE, date |-> act_time_str.date]
      ELSE [raised |-> TRUE, date |-> 0]

\* the mutant of DateFilter: an activity newer than end_date ends the loop
DateFilterStopOnNew(act_date, start_date, end_date) ==
    IF act_date > end_date \/ act_date < start_date THEN "break" ELSE "upsert"

\* lines 107-118: what the loop does with an activity of date act_date
DateFilter(act_date, start_date, end_date) ==
    IF act_date > end_date THEN "continue"
    ELSE IF act_date < start_date THEN "break"
    ELSE "upsert"

\* lines 100-118 for one activity of the batch
VisitOutcome(act, range) ==
    IF strptime_date(act.start_time).raised THEN "continue"
    ELSE DateFilter(strptime_date(act.start_time).date,
                    range.start_date, range.end_date)

\* db_manager.py lines 179-205: INSERT ... ON CONFLICT (key) DO UPDATE
upsert(table, row) ==
    IF \E k \in 1..Len(table) : table[k].activity_id = row.activity_id
      THEN [k \in 1..Len(table) |->
               IF table[k].activity_id = row.activity_id THEN row ELSE table[k]]
      ELSE Append(table, row)

BackfillInit ==
    /\ activity_ids \in {Feed(times) : times \in Feeds}
    /\ days \in DateRanges
    /\ pc = "fetch"
    /\ i = 0
    /\ j = 0
    /\ result = TRUE
    /\ details = <<>>
    /\ activities = <<>>
    /\ activity_details = <<>>
    /\ activity_types = <<>>
    /\ best_powers = Pending
    /\ contributing_activities = Pending
    /\ cp_result = Pending
    /\ best_steady = Pending
    /\ ftp_modeled = Zero
    /\ decouplings = <<>>
    /\ decoupling = Zero

\* lines 88-96: the next batch; client.get_activities answers [] when the
\* request fails (garmin_client.py lines 117-119), and an empty batch ends
\* the loop
FetchBatch ==
    /\ pc = "fetch"
    /\ \E batch \in {get_activities(activity_ids, i, limit), <<>>} :
          /\ details' = batch
          /\ pc' = IF batch = <<>> THEN "done" ELSE "for"
    /\ j' = 1
    /\ UNCHANGED <<db, args, activity_ids, i, curve, cp_result, best_steady,
                   ftp_modeled, decouplings, decoupling, result>>

\* lines 97-128: one pass of the for loop
VisitActivity ==
    /\ pc = "for"
    /\ j <= Len(details)
    /\ LET act == details[j]
           outcome == VisitOutcome(act, days)
       IN  /\ result' = (outcome # "break")
           /\ pc' = IF outcome = "break" \/ j = Len(details)
                      THEN "while" ELSE "for"
           /\ j' = IF outcome = "break" THEN j ELSE j + 1
           /\ activities' =
                 IF outcome = "upsert" THEN upsert(activities, act)
                 ELSE activities
           /\ \E found \in BOOLEAN :
                 activity_details' =
                    IF outcome = "upsert" /\ found
                      THEN upsert(activity_details,
                                  [activity_id |-> act.activity_id])
                      ELSE activity_details
    /\ UNCHANGED <<args, activity_ids, i, details, curve, cp_result,
                   best_steady, ftp_modeled, decouplings, decoupling>>

\* lines 132-134 and the test of line 88
NextPage ==
    /\ pc = "while"
    /\ i' = IF result THEN i + limit ELSE i
    /\ pc' = IF result THEN "fetch" ELSE "done"
    /\ UNCHANGED <<db, args, activity_ids, j, details, curve, cp_result,
                   best_steady, ftp_modeled, decouplings, decoupling, result>>

BackfillNext == FetchBatch \/ VisitActivity \/ NextPage
BackfillSpec ==
    BackfillInit /\ [][BackfillNext]_vars /\ WF_vars(BackfillNext)

\* the activities of the feed that the loop has passed
Passed ==
    LET n == IF pc = "fetch" THEN i ELSE i + j - 1
    IN  SubSeq(activity_ids, 1,
               IF n < Len(activity_ids) THEN n ELSE Len(activity_ids))
DateOf(act) == strptime_date(act.start_time)
Newer(act) == ~DateOf(act).raised /\ DateOf(act).date > days.end_date
Older(act) == ~DateOf(act).raised /\ DateOf(act).date < days.start_date
InRange(act) ==
    /\ ~DateOf(act).raised
    /\ days.start_date <= DateOf(act).date
    /\ DateOf(act).date <= days.end_date

=============================================================================
